---- MODULE Spec2Model ----
(***************************************************************************)
(* Model of app/url_ingester.py: FolderWatcherInfo.get_urls (the           *)
(* extraction pass over the *.url files of the watched folder) and         *)
(* folder_watcher (the poll loop that classifies every extracted URL and   *)
(* routes it to the notifier or to a queue).                               *)
(*                                                                         *)
(* External collaborators are inputs of the actions: the file system       *)
(* (a read or an unlink may raise), the classifier                         *)
(* regex_parsing.generate_FanficInfo_from_url (returns a site or raises),  *)
(* the notifier and the queues (send_notification / put may raise), and    *)
(* the process that drops files into the folder.                           *)
(***************************************************************************)
EXTENDS Naturals, Sequences, FiniteSets, TLC

\* ------------------------------------------------------------------ bounds
\* Number of distinct .url files the external process drops in a run.
MaxFiles == 2

\* The largest number of times FolderWatcherInfo is constructed.
MaxInits == 2

\* The deepest nesting of suppress_logging contexts in one thread.
MaxDepth == 2

FileIds == 1..MaxFiles

\* ------------------------------------------------------------- vocabulary
\* Characters of a file's text: whitespace and one URL character.
Whitespace == {" ", "\n"}

\* File contents the external process writes: a file of whitespace only
\* and a URL surrounded by whitespace.
Contents == { <<" ", "\n">>, <<" ", "u", "\n">> }

\* Sites the classifier can report: the one site the ffnet_disable override
\* names, and a site that is never a key of the queue map.
Sites == {"ffnet", "ao3"}

\* Keys a queue map can have: a site's own key and the fallback key.
QueueKeys == {"ffnet", "other"}

\* Values a queue map can hold under a key: a queue object (truthy, like
\* multiprocessing.Queue), or a value whose truth value is false (None).
SinkKinds == {"queue", "falsy"}

\* Python's None, as returned by dict.get for a missing key.
None == "None"

\* Values of folder_path in the configuration: missing, empty, a path.
FolderPaths == {None, "", "urls"}

\* Values of sleep_time in the configuration.
SleepTimes == {5, 60}

\* What is at folder_path on disk: the directory, nothing (its parent
\* being there), or nothing with the parent missing as well.
DirStates == {"dir", "absent", "no_parent"}

\* What folder_path.glob("*.url") does when the loop of get_urls pulls
\* from it: it yields the .url files of the folder; or it yields nothing
\* because the folder cannot be listed (pathlib swallows the
\* PermissionError of the listing); or it raises.
ScanResults == {"listed", "unlisted", "raises"}

\* What Path(folder_path).mkdir(parents=True, exist_ok=True) does: it
\* returns with the directory there; or the system refuses it before
\* anything is created; or the system refuses the creation of the
\* directory itself, after a missing parent has been created.
MkdirResults == {"ok", "refused", "refused_leaf"}

\* What the second load_config of EmailInfo.__init__ and the reads of
\* the email section that follow it do: they succeed, or the load raises
\* ConfigError, or a read raises AttributeError.
ReloadResults == {"ok", "ConfigError", "AttributeError"}

\* logging.CRITICAL.
CRITICAL == 50

\* Values of the global disable level before any context is entered:
\* logging.NOTSET (nothing disabled), logging.WARNING, logging.CRITICAL.
Levels == {0, 30, CRITICAL}

\* The threads that use suppress_logging.
Threads == {"t1", "t2"}

\* No FolderWatcherInfo object has been constructed.
NoWatcher == [object |-> None]

\* ------------------------------------------------------------------ state
VARIABLES
    disable,            \* logging.root.manager.disable
    contexts,           \* per thread, the stack of its suppress_logging
                        \* contexts: the old_level each one saved and where
                        \* it is ("saved": before logging.disable; "body":
                        \* at the yield)
    level0,             \* history: disable before the first context
    exited,             \* history: the ways contexts have ended so far
    conf,               \* config.folder_watcher as load_config returns it
    dir,                \* what is at folder_path on disk
    info,               \* the FolderWatcherInfo object the caller holds,
                        \* as the record of its attributes, or NoWatcher
    initLog,            \* history: the calls of __init__ so far, what the
                        \* last one raised, the mkdir calls it made, and
                        \* how often the directory was created
    ffnet_disable,      \* folder_info.ffnet_disable
    notification_info,  \* the notifier argument: "notifier" or None
    queues,             \* the queues argument: key -> kind of value
    exists,             \* exists[f]: file f is in the folder
    text,               \* text[f]: content of file f
    writing,            \* files the external process created empty and has
                        \* not yet written the content of
    removed,            \* history: files the external process removed
    dropped,            \* files the external process has created so far
    pc,                 \* position of folder_watcher
    pending,            \* get_urls: files of the scan not yet visited
    urls,               \* get_urls: the list being built, then the batch
    idx,                \* folder_watcher: position in the batch (1-based)
    sinks,              \* sinks[k]: items this cycle has put on the queue
                        \* under key k (the workers drain the queues)
    sent,               \* items this cycle has delivered to the notifier
    scanned,            \* history: the files the current pass's scan found
    passLog,            \* history: the step the current pass took on each file
    handedEarlier,      \* history: files in the batch of an earlier cycle
    failedItems,        \* history: files still in the folder whose item was
                        \* dropped because its dispatch raised
    last,               \* history: outcome of the item dispatched last
    cycleError,         \* history: the cycle-level handler ran this cycle
    afterClean          \* history: the number of files the preceding pass
                        \* consumed, when it consumed every file it found
                        \* and no file was dropped since; 0 otherwise

vars == << disable, contexts, level0, exited,
           conf, dir, info, initLog,
           ffnet_disable, notification_info, queues, exists, text, dropped,
           writing, removed,
           pc, pending, urls, idx, sinks, sent, scanned, passLog,
           handedEarlier, failedItems, last, cycleError, afterClean >>

config == << ffnet_disable, notification_info, queues >>
folder == << exists, text, dropped >>

outside == << writing, removed >>

construction == << conf, dir, info, initLog >>

logstate == << disable, contexts, level0, exited >>

\* ------------------------------------------------------- pure operations
\* str.strip(): drop leading and trailing whitespace.
RECURSIVE LStrip(_)
LStrip(s) ==
    IF s = <<>> THEN <<>>
    ELSE IF Head(s) \in Whitespace THEN LStrip(Tail(s)) ELSE s

RECURSIVE RStrip(_)
RStrip(s) ==
    IF s = <<>> THEN <<>>
    ELSE IF s[Len(s)] \in Whitespace THEN RStrip(SubSeq(s, 1, Len(s) - 1))
    ELSE s

Strip(s) == RStrip(LStrip(s))

\* Python truth value of a queue-map value, of the notifier argument or of
\* folder_path.
Truthy(v) == v \notin {None, "falsy", ""}

\* queues.get(key): the value under key, None when the key is missing.
QueuesGet(key) == IF key \in DOMAIN queues THEN queues[key] ELSE None

\* TargetKey without the fallback to the "other" key.
TargetKey_NoFallback(site) ==
    IF Truthy(QueuesGet(site)) THEN site ELSE "none"

\* The key whose value folder_watcher ends up with as target_queue
\* ("none" when target_queue is falsy after the fallback).
TargetKey(site) ==
    IF Truthy(QueuesGet(site)) THEN site
    ELSE IF Truthy(QueuesGet("other")) THEN "other"
    ELSE "none"

\* What is at folder_path after a mkdir(parents=True) that raised
\* OSError: what was there before, except that a missing parent has been
\* created when the refusal came at the directory itself.
AfterRefusal(dirState, mkdir) ==
    IF mkdir = "refused_leaf" /\ dirState = "no_parent"
    THEN "absent"
    ELSE dirState

\* InitOutcome without the test of folder_path before the mkdir.
InitOutcome_NoValidation(cfg, dirState, loadRaises, mkdir) ==
    LET attrs == [folder_path   |-> cfg.folder_path,
                  sleep_time    |-> cfg.sleep_time,
                  ffnet_disable |-> cfg.ffnet_disable]
        failed(e, n) == [raised |-> e, mkdirs |-> n, dir |-> dirState,
                         attrs |-> NoWatcher]
        refused == [raised |-> "OSError", mkdirs |-> 1,
                    dir |-> AfterRefusal(dirState, mkdir),
                    attrs |-> NoWatcher]
    IN
    IF loadRaises THEN failed("ConfigError", 0)
    ELSE IF mkdir # "ok" THEN refused
    ELSE [raised |-> "none", mkdirs |-> 1, dir |-> "dir", attrs |-> attrs]

\* What __init__ does given the configuration, what is at folder_path and
\* the answers of the external calls: the exception it raises or "none",
\* the mkdir calls it makes, what is at folder_path afterwards and the
\* attributes of the object. load_config can raise ConfigError; mkdir
\* with parents=True and exist_ok=True leaves an existing directory as it
\* is and creates a missing one with its missing parents, unless the
\* system refuses the call (OSError, e.g. a parent that cannot be
\* searched), which it can do whether the directory is there or not,
\* and after it has created the missing parent.
InitOutcome(cfg, dirState, loadRaises, mkdir) ==
    LET attrs == [folder_path   |-> cfg.folder_path,
                  sleep_time    |-> cfg.sleep_time,
                  ffnet_disable |-> cfg.ffnet_disable]
        failed(e, n) == [raised |-> e, mkdirs |-> n, dir |-> dirState,
                         attrs |-> NoWatcher]
        refused == [raised |-> "OSError", mkdirs |-> 1,
                    dir |-> AfterRefusal(dirState, mkdir),
                    attrs |-> NoWatcher]
    IN
    IF loadRaises THEN failed("ConfigError", 0)
    ELSE IF ~Truthy(cfg.folder_path) THEN failed("ValueError", 0)
    ELSE IF mkdir # "ok" THEN refused
    ELSE [raised |-> "none", mkdirs |-> 1, dir |-> "dir", attrs |-> attrs]

\* The level the finally clause of a context sets when its body ends:
\* the old_level the context saved, however the body ended.
RestoredLevel(context, how) == context.old_level

\* The files the loop of get_urls goes over after a scan that did not
\* raise: every .url file of the folder, or none when the folder could
\* not be listed.
Listed(scan) ==
    IF scan = "listed" THEN { f \in FileIds : exists[f] } ELSE {}

\* What EmailInfo.__init__ does: it constructs a FolderWatcherInfo, then
\* loads the configuration a second time, which can raise ConfigError
\* after the mkdir, then reads the attributes of the email section of
\* the loaded object, which raises AttributeError when that section
\* lacks them; attrs are those of its _folder_watcher.
EmailInitOutcome(cfg, dirState, loadRaises, mkdir, reload) ==
    LET inner == InitOutcome(cfg, dirState, loadRaises, mkdir) IN
    IF inner.raised = "none" /\ reload # "ok"
    THEN [inner EXCEPT !.raised = reload, !.attrs = NoWatcher]
    ELSE inner

\* FileHandler re-raising what it caught.
FileHandler_Reraises == "raise"

\* Where control goes when the body of the per-file try raises: the
\* handler logs and the loop over url_files continues.
FileHandler == "continue"

\* Where control goes when the body of the per-item try raises: the
\* handler logs and the loop over urls continues.
ItemHandler == "continue"

\* CycleHandler re-raising what it caught, out of folder_watcher.
CycleHandler_Reraises == "terminated"

\* Where control goes when an exception reaches the cycle-level handler:
\* it logs and control falls through to the sleep.
CycleHandler == "sleep"

\* UrlFileStep without the unlink of a file that was read.
UrlFileStep_KeepsFile(content, readRaises, unlinkRaises) ==
    IF readRaises
    THEN [appended |-> FALSE, unlinked |-> FALSE, error |-> "read"]
    ELSE [appended |-> Strip(content) # <<>>,
          unlinked |-> FALSE,
          error    |-> "none"]

\* What one iteration of the get_urls loop does with a file of the given
\* content: whether a URL is appended, whether the file is unlinked, and
\* which step raised into the per-file handler.
UrlFileStep(content, readRaises, unlinkRaises) ==
    IF readRaises
    THEN [appended |-> FALSE, unlinked |-> FALSE, error |-> "read"]
    ELSE [appended |-> Strip(content) # <<>>,
          unlinked |-> ~unlinkRaises,
          error    |-> IF unlinkRaises THEN "unlink" ELSE "none"]

\* No step taken on a file yet in this pass.
NoStep == [appended |-> FALSE, unlinked |-> FALSE, error |-> "-"]

\* No item dispatched yet in this cycle.
NoOutcome ==
    [file |-> 0, site |-> "-", notifyCalls |-> 0, notified |-> 0,
     putCalls |-> <<>>, enqueued |-> <<>>, dropLogs |-> 0]

\* ProcessUrl with the override taken for every ffnet item, whatever
\* ffnet_disable says.
ProcessUrl_IgnoresFlag(item, cls, sendRaises, putRaises) ==
    LET base == [NoOutcome EXCEPT !.file = item.file, !.site = cls] IN
    IF cls = "raise"
    THEN [base EXCEPT !.dropLogs = 1]
    ELSE IF cls = "ffnet"
    THEN IF Truthy(notification_info)
         THEN IF sendRaises
              THEN [base EXCEPT !.notifyCalls = 1, !.dropLogs = 1]
              ELSE [base EXCEPT !.notifyCalls = 1, !.notified = 1]
         ELSE base
    ELSE LET key == TargetKey(cls) IN
         IF key # "none"
         THEN IF putRaises
              THEN [base EXCEPT !.putCalls = <<key>>, !.dropLogs = 1]
              ELSE [base EXCEPT !.putCalls = <<key>>, !.enqueued = <<key>>]
         ELSE [base EXCEPT !.dropLogs = 1]

\* ProcessUrl without the test of target_queue before the put: put is
\* called on None and raises into the per-item handler.
ProcessUrl_PutsUnguarded(item, cls, sendRaises, putRaises) ==
    LET base == [NoOutcome EXCEPT !.file = item.file, !.site = cls] IN
    IF cls = "raise"
    THEN [base EXCEPT !.dropLogs = 1]
    ELSE IF cls = "ffnet" /\ ffnet_disable
    THEN IF Truthy(notification_info)
         THEN IF sendRaises
              THEN [base EXCEPT !.notifyCalls = 1, !.dropLogs = 1]
              ELSE [base EXCEPT !.notifyCalls = 1, !.notified = 1]
         ELSE base
    ELSE LET key == TargetKey(cls) IN
         IF key # "none" /\ ~putRaises
         THEN [base EXCEPT !.putCalls = <<key>>, !.enqueued = <<key>>]
         ELSE [base EXCEPT !.putCalls = <<key>>, !.dropLogs = 1]

\* What the body of the per-item try does with one URL, given the answers
\* of the external calls (cls is the classifier's site or "raise"): the
\* calls made on the notifier and on the queues, the calls that returned,
\* and the drops logged ("Error processing URL", "No queue available").
ProcessUrl(item, cls, sendRaises, putRaises) ==
    LET base == [NoOutcome EXCEPT !.file = item.file, !.site = cls] IN
    IF cls = "raise"
    THEN [base EXCEPT !.dropLogs = 1]
    ELSE IF cls = "ffnet" /\ ffnet_disable
    THEN IF Truthy(notification_info)
         THEN IF sendRaises
              THEN [base EXCEPT !.notifyCalls = 1, !.dropLogs = 1]
              ELSE [base EXCEPT !.notifyCalls = 1, !.notified = 1]
         ELSE base
    ELSE LET key == TargetKey(cls) IN
         IF key # "none"
         THEN IF putRaises
              THEN [base EXCEPT !.putCalls = <<key>>, !.dropLogs = 1]
              ELSE [base EXCEPT !.putCalls = <<key>>, !.enqueued = <<key>>]
         ELSE [base EXCEPT !.dropLogs = 1]

\* Whether the dispatch of an item of the given class reaches the queue
\* lookups: the classifier returned and the override did not apply.
LooksUp(cls) == cls # "raise" /\ ~(cls = "ffnet" /\ ffnet_disable)

\* queues.get(key) adding the missing key to the map, as setdefault does.
QueuesAfterGet_SetDefault(key) ==
    [k \in DOMAIN queues \cup {key} |->
        IF k \in DOMAIN queues THEN queues[k] ELSE "falsy"]

\* The queue map after queues.get(key): dict.get leaves the map as it is.
QueuesAfterGet(key) == queues

\* The for loop over urls in reverse.
NextItem_Reversed(batch, i) == batch[Len(batch) + 1 - i]

\* The item the i-th iteration of the for loop over urls works on.
NextItem(batch, i) == batch[i]

\* Whether the body of the per-item try ended by raising.
Raised(out) ==
    \/ out.site = "raise"
    \/ out.notifyCalls > out.notified
    \/ Len(out.putCalls) > Len(out.enqueued)

\* The items of a batch, as the set of their files.
FilesOf(batch) == { batch[i].file : i \in 1..Len(batch) }

\* ------------------------------------------------------------------- Init
\* The state when folder_watcher is called: any configuration, an empty
\* folder, nothing dispatched.
Init ==
    /\ ffnet_disable \in BOOLEAN
    /\ conf = [folder_path |-> "urls", sleep_time |-> 60,
               ffnet_disable |-> ffnet_disable]
    /\ dir = "dir"
    /\ info = conf
    /\ initLog = [calls |-> 1, raised |-> "none", mkdirs |-> 1,
                  created |-> 0]
    /\ notification_info \in {"notifier", None}
    /\ queues \in UNION { [K -> SinkKinds] : K \in SUBSET QueueKeys }
    /\ exists = [f \in FileIds |-> FALSE]
    /\ text = [f \in FileIds |-> <<>>]
    /\ dropped = {}
    /\ writing = {}
    /\ removed = {}
    /\ pc = "get_urls"
    /\ pending = {}
    /\ urls = <<>>
    /\ idx = 1
    /\ sinks = [k \in QueueKeys |-> <<>>]
    /\ sent = <<>>
    /\ scanned = {}
    /\ passLog = [f \in FileIds |-> NoStep]
    /\ handedEarlier = {}
    /\ failedItems = {}
    /\ last = NoOutcome
    /\ cycleError = FALSE
    /\ afterClean = 0
    /\ disable = 0
    /\ contexts = [t \in Threads |-> <<>>]
    /\ level0 = 0
    /\ exited = {}

\* ---------------------------------------------------------------- actions
\* The external process creates the next .url file with some content.
\* get_urls sees the set of files only in its scan, so a file created at
\* any later point of a cycle is a file created before the next scan.
DropFile(f, content) ==
    /\ pc = "get_urls"
    /\ f \notin dropped
    /\ \A g \in FileIds : g < f => g \in dropped
    /\ exists' = [exists EXCEPT ![f] = TRUE]
    /\ text' = [text EXCEPT ![f] = content]
    /\ dropped' = dropped \cup {f}
    /\ afterClean' = 0
    /\ UNCHANGED << logstate, config, outside, construction, pc, pending, urls, idx, sinks, sent,
                    scanned, passLog, handedEarlier, failedItems, last,
                    cycleError >>

\* folder_watcher calls get_urls; the directory scan lists the *.url
\* files, or yields nothing because the folder cannot be listed, or raises
\* out of get_urls into the cycle-level handler.
GetUrlsScan(scan) ==
    /\ pc = "get_urls"
    /\ urls' = <<>>
    /\ idx' = 1
    /\ last' = NoOutcome
    /\ sinks' = [k \in QueueKeys |-> <<>>]
    /\ sent' = <<>>
    /\ passLog' = [f \in FileIds |-> NoStep]
    /\ IF scan = "raises"
       THEN /\ pc' = CycleHandler
            /\ cycleError' = TRUE
            /\ pending' = {}
            /\ scanned' = {}
       ELSE /\ pc' = "url_files"
            /\ cycleError' = FALSE
            /\ pending' = Listed(scan)
            /\ scanned' = Listed(scan)
    /\ UNCHANGED << logstate, config, outside, construction, folder, handedEarlier, failedItems, afterClean >>

\* One iteration of the loop over url_files, for any file of the scan.
\* The open of a file that is no longer in the folder raises; the unlink
\* is reached, and so can raise, only when the read returned.
ProcessUrlFile(f, readRaises, unlinkRaises) ==
    /\ pc = "url_files"
    /\ f \in pending
    /\ exists[f] \/ readRaises
    /\ readRaises => ~unlinkRaises
    /\ LET step == UrlFileStep(text[f], readRaises, unlinkRaises)
           found == IF step.appended
                    THEN Append(urls, [file |-> f, url |-> Strip(text[f])])
                    ELSE urls
       IN
       /\ exists' = [exists EXCEPT ![f] = exists[f] /\ ~step.unlinked]
       /\ passLog' = [passLog EXCEPT ![f] = step]
       /\ IF step.error \in {"read", "unlink"} /\ FileHandler # "continue"
          THEN /\ pc' = CycleHandler
               /\ cycleError' = TRUE
               /\ urls' = <<>>
               /\ pending' = {}
          ELSE /\ pc' = pc
               /\ cycleError' = cycleError
               /\ urls' = found
               /\ pending' = pending \ {f}
    /\ UNCHANGED << logstate, config, outside, construction, text, dropped, idx, sinks, sent, scanned,
                    handedEarlier, failedItems, last, afterClean >>

\* get_urls returns the list; folder_watcher starts the loop over it.
GetUrlsReturn ==
    /\ pc = "url_files"
    /\ pending = {}
    /\ pc' = IF urls = <<>> THEN "sleep" ELSE "dispatch"
    /\ UNCHANGED << logstate, config, outside, construction, folder, pending, urls, idx, sinks, sent,
                    scanned, passLog, handedEarlier, failedItems, last,
                    cycleError, afterClean >>

\* One iteration of the loop over urls: classify, then notify or enqueue.
\* A call can raise only when the iteration makes it.
DispatchUrl(cls, sendRaises, putRaises) ==
    /\ pc = "dispatch"
    /\ idx <= Len(urls)
    /\ sendRaises =>
          (cls = "ffnet" /\ ffnet_disable /\ Truthy(notification_info))
    /\ putRaises => (LooksUp(cls) /\ TargetKey(cls) # "none")
    /\ LET url == NextItem(urls, idx)
           out == ProcessUrl(url, cls, sendRaises, putRaises)
           fanfic == [file |-> url.file, url |-> url.url, site |-> cls]
       IN
       /\ last' = out
       /\ queues' = IF LooksUp(cls) THEN QueuesAfterGet(cls) ELSE queues
       /\ failedItems' = IF Raised(out) /\ exists[url.file]
                         THEN failedItems \cup {url.file}
                         ELSE failedItems
       /\ sent' = IF out.notified > 0 THEN Append(sent, fanfic) ELSE sent
       /\ sinks' = [k \in QueueKeys |->
                      IF \E i \in 1..Len(out.enqueued) : out.enqueued[i] = k
                      THEN Append(sinks[k], fanfic) ELSE sinks[k]]
       /\ IF Raised(out) /\ ItemHandler # "continue"
          THEN /\ pc' = CycleHandler
               /\ cycleError' = TRUE
               /\ idx' = idx
          ELSE /\ pc' = IF idx = Len(urls) THEN "sleep" ELSE "dispatch"
               /\ cycleError' = cycleError
               /\ idx' = idx + 1
    /\ UNCHANGED << logstate, ffnet_disable, notification_info, folder, outside,
                    construction, pending,
                    urls, scanned, passLog, handedEarlier, afterClean >>

\* time.sleep(sleep_time) returns and the next cycle starts.
Sleep ==
    /\ pc = "sleep"
    /\ pc' = "get_urls"
    /\ handedEarlier' = handedEarlier \cup FilesOf(urls)
    /\ failedItems' = { f \in failedItems : exists[f] }
    /\ afterClean' =
         IF /\ ~cycleError
            /\ \A f \in scanned :
                 passLog[f] = [appended |-> TRUE, unlinked |-> TRUE,
                               error |-> "none"]
         THEN Cardinality(scanned)
         ELSE 0
    /\ UNCHANGED << logstate, config, outside, construction, folder, pending, urls, idx, sinks, sent,
                    scanned, passLog, last, cycleError >>

Next ==
    \/ \E f \in FileIds, content \in Contents : DropFile(f, content)
    \/ \E scan \in ScanResults : GetUrlsScan(scan)
    \/ \E f \in FileIds, readRaises \in BOOLEAN, unlinkRaises \in BOOLEAN :
          ProcessUrlFile(f, readRaises, unlinkRaises)
    \/ GetUrlsReturn
    \/ \E cls \in Sites \cup {"raise"}, sendRaises \in BOOLEAN,
          putRaises \in BOOLEAN : DispatchUrl(cls, sendRaises, putRaises)
    \/ Sleep

Spec == Init /\ [][Next]_vars

\* ------------------------------------------------------------ fairness
\* The steps of the watcher itself, without the external process.
LoopNext ==
    \/ \E scan \in ScanResults : GetUrlsScan(scan)
    \/ \E f \in FileIds, readRaises \in BOOLEAN, unlinkRaises \in BOOLEAN :
          ProcessUrlFile(f, readRaises, unlinkRaises)
    \/ GetUrlsReturn
    \/ \E cls \in Sites \cup {"raise"}, sendRaises \in BOOLEAN,
          putRaises \in BOOLEAN : DispatchUrl(cls, sendRaises, putRaises)
    \/ Sleep

\* The watcher runs on: every external call returns or raises and
\* time.sleep returns, so the loop always takes its next step. The
\* directory does not stay unreadable for ever, and no file stays
\* unreadable or undeletable for ever: among the scans, and among the
\* iterations over a file, one in which nothing raises comes in the end.
Fairness ==
    /\ WF_vars(LoopNext)
    /\ SF_vars(GetUrlsScan("listed"))
    /\ \A f \in FileIds : SF_vars(ProcessUrlFile(f, FALSE, FALSE))

FairSpec == Init /\ [][Next]_vars /\ Fairness

\* ----------------------------------------------------- construction
\* The state before FolderWatcherInfo is constructed: any configuration,
\* the folder there with some files, or not there.
InitConstruct ==
    /\ conf \in [folder_path : FolderPaths, sleep_time : SleepTimes,
                  ffnet_disable : BOOLEAN]
    /\ dir \in DirStates
    /\ info = NoWatcher
    /\ initLog = [calls |-> 0, raised |-> "-", mkdirs |-> 0, created |-> 0]
    /\ dropped \in { 1..n : n \in 0..MaxFiles }
    /\ dir # "dir" => dropped = {}
    /\ exists = [f \in FileIds |-> f \in dropped]
    /\ text \in [FileIds -> Contents \cup {<<>>}]
    /\ \A f \in FileIds : (text[f] = <<>>) = (f \notin dropped)
    /\ ffnet_disable = FALSE
    /\ notification_info = None
    /\ queues = <<>>
    /\ writing = {}
    /\ removed = {}
    /\ pc = "construct"
    /\ pending = {}
    /\ urls = <<>>
    /\ idx = 1
    /\ sinks = [k \in QueueKeys |-> <<>>]
    /\ sent = <<>>
    /\ scanned = {}
    /\ passLog = [f \in FileIds |-> NoStep]
    /\ handedEarlier = {}
    /\ failedItems = {}
    /\ last = NoOutcome
    /\ cycleError = FALSE
    /\ afterClean = 0
    /\ disable = 0
    /\ contexts = [t \in Threads |-> <<>>]
    /\ level0 = 0
    /\ exited = {}

\* FolderWatcherInfo(config_path) is called: the caller holds the new
\* object when __init__ returns, and what it held before when it raises.
Construct(loadRaises, mkdir) ==
    /\ pc = "construct"
    /\ initLog.calls < MaxInits
    /\ mkdir = "refused_leaf" => dir = "no_parent"
    /\ LET out == InitOutcome(conf, dir, loadRaises, mkdir) IN
       /\ dir' = out.dir
       /\ info' = IF out.raised = "none" THEN out.attrs ELSE info
       /\ initLog' = [calls   |-> initLog.calls + 1,
                      raised  |-> out.raised,
                      mkdirs  |-> out.mkdirs,
                      created |-> initLog.created
                                    + (IF out.dir = "dir" /\ dir # "dir"
                                       THEN 1 ELSE 0)]
    /\ UNCHANGED << logstate, conf, config, folder, outside, pc, pending, urls, idx,
                    sinks, sent, scanned, passLog, handedEarlier,
                    failedItems, last, cycleError, afterClean >>

\* EmailInfo(config_path) is called; the watcher object the caller holds
\* afterwards is the _folder_watcher of the new object, the one
\* email_watcher hands to folder_watcher.
ConstructEmailInfo(loadRaises, mkdir, reload) ==
    /\ pc = "construct"
    /\ initLog.calls < MaxInits
    /\ mkdir = "refused_leaf" => dir = "no_parent"
    /\ reload # "ok" => (~loadRaises /\ mkdir = "ok")
    /\ LET out == EmailInitOutcome(conf, dir, loadRaises, mkdir, reload) IN
       /\ dir' = out.dir
       /\ info' = IF out.raised = "none" THEN out.attrs ELSE info
       /\ initLog' = [calls   |-> initLog.calls + 1,
                      raised  |-> out.raised,
                      mkdirs  |-> out.mkdirs,
                      created |-> initLog.created
                                    + (IF out.dir = "dir" /\ dir # "dir"
                                       THEN 1 ELSE 0)]
    /\ UNCHANGED << logstate, conf, config, folder, outside, pc, pending,
                    urls, idx, sinks, sent, scanned, passLog, handedEarlier,
                    failedItems, last, cycleError, afterClean >>

\* folder_watcher(folder_info, notification_info, queues) is called with
\* the object the caller holds, directly or through email_watcher; Spec
\* describes the loop from here on.
StartWatcher(notifier, queueMap) ==
    /\ pc = "construct"
    /\ info # NoWatcher
    /\ pc' = "get_urls"
    /\ ffnet_disable' = info.ffnet_disable
    /\ notification_info' = notifier
    /\ queues' = queueMap
    /\ UNCHANGED << logstate, construction, folder, outside, pending, urls, idx,
                    sinks, sent, scanned, passLog, handedEarlier,
                    failedItems, last, cycleError, afterClean >>

NextConstruct ==
    \/ \E loadRaises \in BOOLEAN, mkdir \in MkdirResults :
          Construct(loadRaises, mkdir)
    \/ \E loadRaises \in BOOLEAN, mkdir \in MkdirResults,
          reload \in ReloadResults :
          ConstructEmailInfo(loadRaises, mkdir, reload)
    \/ \E notifier \in {"notifier", None},
          queueMap \in UNION { [K -> SinkKinds] : K \in SUBSET QueueKeys } :
          StartWatcher(notifier, queueMap)

\* The construction of the watcher object, up to the call of the loop.
SpecConstruct == InitConstruct /\ [][NextConstruct]_vars

\* -------------------------------------------------- suppress_logging
\* The state before any suppress_logging context is entered: any global
\* disable level; the watcher is not part of these behaviours.
InitLogging ==
    /\ disable \in Levels
    /\ level0 = disable
    /\ contexts = [t \in Threads |-> <<>>]
    /\ exited = {}
    /\ conf = [folder_path |-> "urls", sleep_time |-> 60,
               ffnet_disable |-> FALSE]
    /\ dir = "dir"
    /\ info = conf
    /\ initLog = [calls |-> 1, raised |-> "none", mkdirs |-> 1,
                  created |-> 0]
    /\ ffnet_disable = FALSE
    /\ notification_info = None
    /\ queues = <<>>
    /\ exists = [f \in FileIds |-> FALSE]
    /\ text = [f \in FileIds |-> <<>>]
    /\ dropped = {}
    /\ writing = {}
    /\ removed = {}
    /\ pc = "get_urls"
    /\ pending = {}
    /\ urls = <<>>
    /\ idx = 1
    /\ sinks = [k \in QueueKeys |-> <<>>]
    /\ sent = <<>>
    /\ scanned = {}
    /\ passLog = [f \in FileIds |-> NoStep]
    /\ handedEarlier = {}
    /\ failedItems = {}
    /\ last = NoOutcome
    /\ cycleError = FALSE
    /\ afterClean = 0

\* The frame of the watcher, which suppress_logging does not touch.
WatcherUnchanged ==
    UNCHANGED << config, construction, folder, outside, pc, pending, urls,
                 idx, sinks, sent, scanned, passLog, handedEarlier,
                 failedItems, last, cycleError, afterClean >>

\* Thread t enters a context, at top level or inside the body of the
\* context it is in: old_level = logging.root.manager.disable.
EnterContext(t) ==
    /\ Len(contexts[t]) < MaxDepth
    /\ contexts[t] # <<>> => contexts[t][Len(contexts[t])].at = "body"
    /\ contexts' = [contexts EXCEPT ![t] =
                       Append(@, [old_level |-> disable, at |-> "saved"])]
    /\ UNCHANGED << disable, level0, exited >>
    /\ WatcherUnchanged

\* logging.disable(logging.CRITICAL), then the yield: the body runs.
DisableLogging(t) ==
    /\ contexts[t] # <<>>
    /\ contexts[t][Len(contexts[t])].at = "saved"
    /\ disable' = CRITICAL
    /\ contexts' = [contexts EXCEPT ![t][Len(contexts[t])].at = "body"]
    /\ UNCHANGED << level0, exited >>
    /\ WatcherUnchanged

\* The body of thread t's innermost context ends, normally or by an
\* exception; the finally clause runs either way:
\* logging.disable(old_level).
ExitContext(t, how) ==
    /\ contexts[t] # <<>>
    /\ contexts[t][Len(contexts[t])].at = "body"
    /\ disable' = RestoredLevel(contexts[t][Len(contexts[t])], how)
    /\ contexts' = [contexts EXCEPT ![t] = SubSeq(@, 1, Len(@) - 1)]
    /\ exited' = exited \cup {how}
    /\ UNCHANGED level0
    /\ WatcherUnchanged

NextLogging ==
    \/ \E t \in Threads : EnterContext(t)
    \/ \E t \in Threads : DisableLogging(t)
    \/ \E t \in Threads, how \in {"normal", "exception"} :
          ExitContext(t, how)

\* Two threads using suppress_logging, nested and interleaved.
SpecLogging == InitLogging /\ [][NextLogging]_vars

\* ------------------------------------- a concurrent external process
\* The external process creates the next .url file, empty, to write its
\* content in a later step.
CreateFile(f) ==
    /\ pc = "get_urls"
    /\ f \notin dropped
    /\ \A g \in FileIds : g < f => g \in dropped
    /\ exists' = [exists EXCEPT ![f] = TRUE]
    /\ text' = [text EXCEPT ![f] = <<>>]
    /\ dropped' = dropped \cup {f}
    /\ writing' = writing \cup {f}
    /\ afterClean' = 0
    /\ UNCHANGED << logstate, config, construction, removed, pc, pending, urls, idx, sinks, sent,
                    scanned, passLog, handedEarlier, failedItems, last,
                    cycleError >>

\* The external process writes the content of a file it created and
\* closes it. The write goes through the descriptor it holds: when the
\* file was unlinked in between, the content is in no file of the folder.
WriteFile(f, content) ==
    /\ pc \in {"get_urls", "url_files"}
    /\ f \in writing
    /\ text' = [text EXCEPT ![f] = content]
    /\ writing' = writing \ {f}
    /\ afterClean' = 0
    /\ UNCHANGED << logstate, config, construction, exists, dropped, removed, pc, pending, urls, idx,
                    sinks, sent, scanned, passLog, handedEarlier,
                    failedItems, last, cycleError >>

\* The external process removes a file between the scan and the
\* iteration that reads it: the open of that iteration raises.
RemoveFile(f) ==
    /\ pc = "url_files"
    /\ f \in pending
    /\ exists[f]
    /\ exists' = [exists EXCEPT ![f] = FALSE]
    /\ removed' = removed \cup {f}
    /\ writing' = writing \ {f}
    /\ UNCHANGED << logstate, config, construction, text, dropped, pc, pending, urls, idx, sinks,
                    sent, scanned, passLog, handedEarlier, failedItems,
                    last, cycleError, afterClean >>

\* One iteration of the loop over url_files in which the external
\* process removes the file after the read and before the unlink: the
\* URL, if any, is appended, the unlink raises FileNotFoundError into the
\* per-file handler, and the file is gone.
ProcessUrlFileRemoved(f) ==
    /\ pc = "url_files"
    /\ f \in pending
    /\ exists[f]
    /\ LET step == UrlFileStep(text[f], FALSE, TRUE)
           found == IF step.appended
                    THEN Append(urls, [file |-> f, url |-> Strip(text[f])])
                    ELSE urls
       IN
       /\ passLog' = [passLog EXCEPT ![f] = step]
       /\ IF FileHandler # "continue"
          THEN /\ pc' = CycleHandler
               /\ cycleError' = TRUE
               /\ urls' = <<>>
               /\ pending' = {}
          ELSE /\ pc' = pc
               /\ cycleError' = cycleError
               /\ urls' = found
               /\ pending' = pending \ {f}
    /\ exists' = [exists EXCEPT ![f] = FALSE]
    /\ removed' = removed \cup {f}
    /\ writing' = writing \ {f}
    /\ UNCHANGED << logstate, config, construction, text, dropped, idx,
                    sinks, sent, scanned, handedEarlier, failedItems, last,
                    afterClean >>

NextConcurrent ==
    \/ Next
    \/ \E f \in FileIds : CreateFile(f)
    \/ \E f \in FileIds, content \in Contents : WriteFile(f, content)
    \/ \E f \in FileIds : RemoveFile(f)
    \/ \E f \in FileIds : ProcessUrlFileRemoved(f)

\* The watcher with the external process modifying the folder while a
\* pass is under way.
SpecConcurrent == Init /\ [][NextConcurrent]_vars

\* ----------------------------------------------------------- properties
\* get_urls has returned (or raised) in the current cycle: urls is the
\* batch handed to the dispatch loop.
PassOver == pc \in {"dispatch", "sleep"}

\* The files that were in the folder when the pass of the current cycle
\* scanned it: a pass removes only files it scanned, and files are dropped
\* between passes.
InFolderAtScan == scanned \cup { f \in FileIds : exists[f] }

\* The override applies to the item dispatched last.
Overridden == last.site = "ffnet" /\ ffnet_disable

\* The number of items of a queue that come from file f.
CountOn(key, f) ==
    Cardinality({ i \in 1..Len(sinks[key]) : sinks[key][i].file = f })

\* C1: every dispatched URL gets exactly one outcome: delivered to the
\* notifier, put on one queue, or dropped with a log line.
C1_ExactlyOneOutcome ==
    last.file # 0 =>
        last.notified + Len(last.enqueued) + last.dropLogs = 1

\* C2: a .url file whose content is blank stays in the folder and no pass
\* returns an item for it.
C2_BlankFilePreserved ==
    \A f \in dropped :
        Strip(text[f]) = <<>> =>
            /\ exists[f]
            /\ f \notin FilesOf(urls)
            /\ f \notin handedEarlier

\* C3: a file whose read or whose unlink raised is still in the folder
\* after the pass, and the pass returned no URL for it.
C3_FailedFileYieldsNoUrl ==
    PassOver =>
        \A f \in scanned :
            passLog[f].error \in {"read", "unlink"} =>
                exists[f] /\ f \notin FilesOf(urls)

\* C4: the content of one file is in the batch of at most one cycle.
C4_HandedAtMostOnce ==
    PassOver => FilesOf(urls) \cap handedEarlier = {}

\* C5 as stated: a pass that returns, over a folder whose N files are all
\* non-blank and none of which has a read or an unlink that raises,
\* returns N URLs and leaves none of the N files.
C5_ReturnsAllFiles_AsStated ==
    ( /\ PassOver
      /\ ~cycleError
      /\ \A f \in InFolderAtScan :
           passLog[f].error \notin {"read", "unlink"}
              /\ Strip(text[f]) # <<>> )
    => /\ Len(urls) = Cardinality(InFolderAtScan)
       /\ \A f \in InFolderAtScan : ~exists[f]

\* C5 amended: a pass whose scan listed the folder, over N files that are
\* all non-blank, readable and deletable, returns N URLs, one per file,
\* and removes the N files; the pass that follows it with no file
\* dropped in between returns no URL.
C5_IdempotentExtraction ==
    PassOver =>
        /\ ( /\ ~cycleError
             /\ scanned = InFolderAtScan
             /\ \A f \in scanned :
                  passLog[f].error = "none" /\ Strip(text[f]) # <<>> )
           => /\ Len(urls) = Cardinality(InFolderAtScan)
              /\ FilesOf(urls) = InFolderAtScan
              /\ \A f \in InFolderAtScan : ~exists[f]
        /\ afterClean > 0 => urls = <<>>

\* A second pass over an unchanged folder has ended after a pass that
\* consumed two or more files.
C5_Witness ==
    /\ pc = "sleep"
    /\ ~cycleError
    /\ afterClean >= 2
    /\ urls = <<>>
    /\ \A f \in dropped : ~exists[f]

\* C6: with ffnet_disable set, an item classified ffnet goes to the
\* notifier and to no queue.
C6_OverrideExclusive ==
    (last.file # 0 /\ Overridden) =>
        last.notifyCalls = 1 /\ last.putCalls = <<>>

\* C7: an item whose site is a key of the queue map (override apart) is
\* put on that key's sink only, never on "other", whatever the value
\* stored under the key.
C7_ExactKeyRouting ==
    (last.file # 0 /\ last.site \in DOMAIN queues /\ ~Overridden) =>
        /\ \A i \in 1..Len(last.putCalls) : last.putCalls[i] = last.site
        /\ Truthy(queues[last.site]) => last.putCalls = <<last.site>>

\* C8 as stated: an item whose site is no key of the queue map, while
\* "other" is a key (override apart), is put on "other" exactly once.
C8_FallbackRouting_AsStated ==
    ( /\ last.file # 0
      /\ last.site \in Sites \ DOMAIN queues
      /\ "other" \in DOMAIN queues
      /\ ~Overridden )
    => last.putCalls = <<"other">>

\* C8 amended: an item whose site is no key of the queue map, while
\* "other" is a key bound to a queue (override apart), has put called on
\* the "other" queue exactly once and on no other; when the put returns
\* the item is on that queue once and on no other queue.
C8_FallbackRouting ==
    ( /\ last.file # 0
      /\ last.site \in Sites \ DOMAIN queues
      /\ "other" \in DOMAIN queues
      /\ Truthy(queues["other"])
      /\ ~Overridden )
    => /\ last.putCalls = <<"other">>
       /\ last.notifyCalls = 0
       /\ \/ /\ last.enqueued = <<"other">>
             /\ last.dropLogs = 0
             /\ CountOn("other", last.file) = 1
          \/ /\ last.enqueued = <<>>
             /\ last.dropLogs = 1
             /\ CountOn("other", last.file) = 0
       /\ \A k \in QueueKeys \ {"other"} : CountOn(k, last.file) = 0

\* An ao3 item went to "other" although the map has a key for ffnet too.
C8_Witness ==
    /\ last.file # 0
    /\ last.site = "ao3"
    /\ DOMAIN queues = {"ffnet", "other"}
    /\ queues["other"] = "queue"
    /\ last.enqueued = <<"other">>
    /\ CountOn("other", last.file) = 1

\* C9: no failure of the extraction pass, the classifier, the notifier or
\* a queue put ends the loop: control stays in the loop, a cycle-level
\* failure leads to the sleep, and a failed item leads to the next item
\* or to the sleep, from where the next cycle starts.
C9_LoopNeverTerminates ==
    /\ pc \in {"get_urls", "url_files", "dispatch", "sleep"}
    /\ cycleError => pc \in {"sleep", "get_urls"}
    /\ (last.file # 0 /\ Raised(last)) => pc \in {"dispatch", "sleep", "get_urls"}
    /\ pc = "sleep" => ENABLED Sleep

\* The next cycle is starting after a cycle in which a file read raised
\* and the dispatch of an item raised.
C9_Witness ==
    /\ pc = "get_urls"
    /\ last.file # 0
    /\ Raised(last)
    /\ \E f \in scanned : passLog[f].error = "read"

\* C10: in a pass in which the read of one file raised, every other file
\* of the scan that is readable and non-blank has its URL in the batch
\* and, unless its unlink raised, is removed; and when the cycle reaches
\* the sleep every URL of the batch has gone through the dispatch loop.
C10_FaultIsolation ==
    (PassOver /\ \E g \in scanned : passLog[g].error = "read") =>
        /\ \A f \in scanned :
             (passLog[f].error # "read" /\ Strip(text[f]) # <<>>) =>
                 /\ f \in FilesOf(urls)
                 /\ passLog[f].error # "unlink" => ~exists[f]
        /\ pc = "sleep" => idx = Len(urls) + 1

\* One file could not be read; another was read, removed and dispatched.
C10_Witness ==
    /\ pc = "sleep"
    /\ \E g \in scanned : passLog[g].error = "read"
    /\ \E f \in scanned :
         /\ f \in FilesOf(urls)
         /\ ~exists[f]
         /\ last.file = f
    /\ idx = Len(urls) + 1

\* The position of file f's item in the batch of the current cycle.
PosInBatch(f) == CHOOSE i \in 1..Len(urls) : urls[i].file = f

\* The items of seq are in the order of the batch.
InBatchOrder(seq) ==
    \A i, j \in 1..Len(seq) :
        i < j => PosInBatch(seq[i].file) < PosInBatch(seq[j].file)

\* C11: an item whose classification, notifier call or queue put raised
\* is put on no queue, the items after it in the batch are still
\* dispatched in the same cycle, and the item is in the batch of no later
\* cycle.
C11_FailedItemDropped ==
    /\ (last.file # 0 /\ Raised(last)) =>
          /\ last.enqueued = <<>>
          /\ \A k \in QueueKeys : CountOn(k, last.file) = 0
          /\ pc \in {"dispatch", "sleep", "get_urls"}
          /\ pc = "dispatch" => idx <= Len(urls)
          /\ pc = "sleep" => idx = Len(urls) + 1
    /\ (pc = "dispatch" /\ idx = 1) => FilesOf(urls) \cap failedItems = {}

\* C12: a cycle whose extraction pass raised has an empty batch: nothing
\* is dispatched, put on a queue or sent to the notifier in it, and
\* control goes to the sleep, from where the next pass starts.
C12_FailedPassIsEmptyBatch ==
    cycleError =>
        /\ urls = <<>>
        /\ last = NoOutcome
        /\ sent = <<>>
        /\ \A k \in QueueKeys : sinks[k] = <<>>
        /\ pc \in {"sleep", "get_urls"}
        /\ pc = "sleep" => ENABLED Sleep

\* The next pass is about to start after a cycle whose scan raised; the
\* files of the folder are still there.
C12_Witness ==
    /\ pc = "get_urls"
    /\ cycleError
    /\ scanned = {}
    /\ \E f \in FileIds : exists[f]

\* C13: with the external process creating files empty and writing them
\* later, or removing files between the scan and the read, the loop stays
\* alive, a file that is still being written stays in the folder, and
\* every complete file with a URL that the watcher took out of the folder
\* had its URL handed to the dispatch loop.
C13_NoUrlLost ==
    /\ pc \in {"get_urls", "url_files", "dispatch", "sleep"}
    /\ \A f \in writing : exists[f]
    /\ \A f \in dropped \ (writing \cup removed) :
          (Strip(text[f]) # <<>> /\ ~exists[f]) =>
              f \in handedEarlier \cup FilesOf(urls)

\* C14: within one cycle the items are dispatched in the order get_urls
\* returned them: the item dispatched last is the one before the loop
\* index, and the items on each queue and at the notifier are in batch
\* order.
C14_DispatchInExtractionOrder ==
    /\ last.file # 0 => (idx > 1 /\ last.file = urls[idx - 1].file)
    /\ \A k \in QueueKeys : InBatchOrder(sinks[k])
    /\ InBatchOrder(sent)

\* Two items of one batch are on the same queue, in batch order.
C14_Witness ==
    \E k \in QueueKeys :
        /\ Len(sinks[k]) = 2
        /\ Len(urls) = 2
        /\ sinks[k][1].file = urls[1].file
        /\ sinks[k][2].file = urls[2].file

\* C15 as stated: a construction with a missing or empty folder_path
\* raises before any mkdir and leaves the caller without a watcher
\* object, and no other failure of the construction occurs.
C15_OnlyPathFailure_AsStated ==
    initLog.calls >= 1 =>
        /\ ~Truthy(conf.folder_path) =>
              /\ initLog.raised # "none"
              /\ initLog.mkdirs = 0
              /\ initLog.created = 0
              /\ info = NoWatcher
              /\ pc = "construct"
        /\ initLog.raised # "none" => ~Truthy(conf.folder_path)

\* C15 amended: a construction with a missing or empty folder_path raises
\* (ValueError, or ConfigError when the configuration does not load)
\* before any mkdir and leaves the caller without a watcher object, so
\* the loop is not started; the other failures of a construction are a
\* configuration that does not load (for EmailInfo also on its second
\* load, after the mkdir), for EmailInfo an email section without the
\* attributes it reads, and a mkdir call the system refuses, whether the
\* directory is there or not; and the loop is started only with an
\* object whose folder_path is non-empty and whose directory is there.
C15_ConstructionFailures ==
    /\ info = NoWatcher => pc = "construct"
    /\ pc = "get_urls" => (Truthy(info.folder_path) /\ dir = "dir")
    /\ initLog.calls >= 1 =>
          /\ ~Truthy(conf.folder_path) =>
                /\ initLog.raised \in {"ValueError", "ConfigError"}
                /\ initLog.mkdirs = 0
                /\ initLog.created = 0
                /\ info = NoWatcher
          /\ initLog.raised \in {"none", "ValueError", "ConfigError",
                                  "OSError", "AttributeError"}
          /\ initLog.raised = "ValueError" => ~Truthy(conf.folder_path)
          /\ initLog.raised = "OSError" =>
                (Truthy(conf.folder_path) /\ initLog.mkdirs = 1)
          /\ (initLog.raised = "ConfigError" /\ initLog.mkdirs = 1) =>
                (Truthy(conf.folder_path) /\ dir = "dir")
          /\ initLog.raised = "AttributeError" =>
                (Truthy(conf.folder_path) /\ dir = "dir"
                    /\ initLog.mkdirs = 1)

\* A construction with an empty folder_path raised ValueError: no mkdir
\* was called, the directory is still missing and there is no object.
C15_Witness ==
    /\ initLog.calls = 1
    /\ conf.folder_path = ""
    /\ initLog.raised = "ValueError"
    /\ initLog.mkdirs = 0
    /\ dir = "absent"
    /\ info = NoWatcher

\* C16: a construction with a non-empty folder_path whose configuration
\* loads succeeds without error when the directory is already there.
C16_ExistingDirSucceeds_AsStated ==
    [][ ( /\ initLog'.calls = initLog.calls + 1
          /\ Truthy(conf.folder_path)
          /\ initLog'.raised \notin {"ConfigError", "AttributeError"}
          /\ dir = "dir" )
        => initLog'.raised = "none"
      ]_vars

\* C17: no step of folder_watcher changes the queue map: it keeps the
\* same keys, bound to the same sinks.
C17_QueueMapUnchanged == [][queues' = queues]_vars

\* An item was routed through the fallback lookup, its own site not
\* being a key of the map, and the map still has no key for that site.
C17_Witness ==
    /\ last.file # 0
    /\ last.site = "ao3"
    /\ last.putCalls = <<"other">>
    /\ "ao3" \notin DOMAIN queues
    /\ pc = "get_urls"

\* C18: in every cycle, every file with a URL that the pass deleted has
\* its URL in the batch handed to the dispatch loop of that cycle, and
\* the loop has dispatched the whole batch when the cycle sleeps; a scan
\* that raises does so before any file of the pass is consumed.
C18_DeletedFilesAreHanded ==
    PassOver =>
        /\ \A f \in scanned :
              (passLog[f].appended /\ passLog[f].unlinked) =>
                  f \in FilesOf(urls)
        /\ pc = "sleep" => idx = Len(urls) + 1
        /\ cycleError =>
              \A f \in FileIds : ~passLog[f].appended /\ ~passLog[f].unlinked

\* A cycle sleeps after a pass that read and deleted two files with a
\* URL: both URLs are in the batch and the batch has been dispatched.
C18_Witness ==
    /\ pc = "sleep"
    /\ ~cycleError
    /\ Cardinality(scanned) = 2
    /\ \A f \in scanned : passLog[f].appended /\ passLog[f].unlinked
    /\ FilesOf(urls) = scanned
    /\ idx = Len(urls) + 1

\* C19: the notifier is called for an item only when its site is ffnet
\* and ffnet_disable is set; any other classified item gets no notifier
\* call and goes to its own key's queue, else to the "other" queue, else
\* is dropped with a log line.
C19_NotifierOnlyOnOverride ==
    last.file # 0 =>
        /\ last.notifyCalls > 0 => Overridden
        /\ (last.site \in Sites /\ ~Overridden) =>
              /\ last.notifyCalls = 0
              /\ \A i \in 1..Len(sent) : sent[i].file # last.file
              /\ Truthy(QueuesGet(last.site)) =>
                    last.putCalls = <<last.site>>
              /\ (~Truthy(QueuesGet(last.site))
                    /\ Truthy(QueuesGet("other"))) =>
                    last.putCalls = <<"other">>
              /\ (~Truthy(QueuesGet(last.site))
                    /\ ~Truthy(QueuesGet("other"))) =>
                    (last.putCalls = <<>> /\ last.dropLogs = 1)

\* An ffnet item was put on the ffnet queue, a notifier being configured
\* and ffnet_disable being off.
C19_Witness ==
    /\ last.file # 0
    /\ last.site = "ffnet"
    /\ ~ffnet_disable
    /\ notification_info = "notifier"
    /\ last.enqueued = <<"ffnet">>
    /\ sent = <<>>

\* C20: an item whose site is no key of the queue map, "other" being no
\* key either (override apart), is dropped with one log line: put is
\* called on no queue, the notifier is not called, nothing raises, and
\* the loop goes on to the next item or to the sleep.
C20_NoQueueDrop ==
    ( /\ last.file # 0
      /\ last.site \in Sites \ DOMAIN queues
      /\ "other" \notin DOMAIN queues
      /\ ~Overridden )
    => /\ last.putCalls = <<>>
       /\ last.enqueued = <<>>
       /\ last.notifyCalls = 0
       /\ last.dropLogs = 1
       /\ ~Raised(last)
       /\ \A k \in QueueKeys : CountOn(k, last.file) = 0
       /\ pc \in {"dispatch", "sleep", "get_urls"}
       /\ pc = "dispatch" => idx <= Len(urls)
       /\ pc = "sleep" => idx = Len(urls) + 1

\* The first item of a batch of two found no queue and was dropped; the
\* second item is next.
C20_Witness ==
    /\ pc = "dispatch"
    /\ Len(urls) = 2
    /\ idx = 2
    /\ last.file = urls[1].file
    /\ last.site = "ao3"
    /\ DOMAIN queues = {}
    /\ last.dropLogs = 1
    /\ last.putCalls = <<>>

\* C22: once no suppress_logging context is active in any thread, the
\* global disable level is the one from before the first context, for any
\* nesting and interleaving of the contexts of two threads and any way
\* their bodies end.
C22_LevelRestored ==
    (\A t \in Threads : contexts[t] = <<>>) => disable = level0

\* The item of file f was dispatched last and got exactly one outcome:
\* the notifier took it, one queue took it, or its drop was logged.
OneOutcome(f) ==
    /\ last.file = f
    /\ last.notified + Len(last.enqueued) + last.dropLogs = 1

\* C21: under fair scheduling, every non-blank file that does not stay
\* unreadable or undeletable is in the end out of the folder with its URL
\* dispatched to exactly one outcome.
C21_EventuallyOneOutcome ==
    \A f \in FileIds :
        (exists[f] /\ Strip(text[f]) # <<>>)
            ~> (~exists[f] /\ OneOutcome(f))

====
